---------------------------- MODULE Spec2Model ----------------------------
(***************************************************************************)
(* Personal finance app: the flat-file dataset (CSV) with its Streamlit    *)
(* pages, the month filter, and the relational store with its CRUD layer   *)
(* and HTTP endpoints.                                                     *)
(*                                                                         *)
(* A table (pandas DataFrame / CSV file content) is a record               *)
(*   [cols |-> sequence of column names, rows |-> sequence of rows]        *)
(* and a row is a sequence of cells aligned with cols.  Cells are tagged   *)
(* tuples: <<"ts",y,m,d>> a pandas Timestamp, <<"iso",y,m,d>> the text     *)
(* "YYYY-MM-DD" of a CSV cell, <<"str",s>> text, <<"int",n>> an integer,   *)
(* <<"nan">> a missing value in a frame, <<"blank">> an empty CSV cell.    *)
(*                                                                         *)
(* The module is ASCII: the month tokens "1月".."12月" are written         *)
(* "1gatsu".."12gatsu" and the all-months token "全て" is "subete".        *)
(***************************************************************************)
EXTENDS Integers, Sequences, FiniteSets, TLC

VARIABLES
    vc_df,        \* validate_columns: the table handed to it
    vc_ret,       \* validate_columns: its last result
    f_df,         \* filter_by_month: the input table
    f_token,      \* filter_by_month: the month token of the last call
    f_out,        \* filter_by_month: the table returned by the last call
    file,         \* data/finance.csv: [exists, mtime, data]
    clock,        \* the file system's time, in modification-time ticks
    cache,        \* st.cache_data of utils.file.get_data: {[key, df]}
    page_cache,   \* st.cache_data of pages.database.get_data: {[key, df]}
    ss,           \* st.session_state of each UI session
    last,         \* the last page interaction: [s, op, ret, arg]
    e2e,          \* history: how far the generate-then-add scenario has run
    db,           \* data/finance.db: [categories, labels, items], sets of rows
    call,         \* the last Crud call: [op, args, fault, ret]
    resp,         \* the last HTTP response: [route, status]
    reqs,         \* the HTTP requests: [pc, session] of each
    pool          \* the Sessions made so far: [opened, closed], sets of ids

pureVars == <<vc_df, vc_ret, f_df, f_token, f_out>>
uiVars == <<file, clock, cache, page_cache, ss, last, e2e>>
dbVars == <<db, call, resp>>
sessVars == <<reqs, pool>>
vars == <<vc_df, vc_ret, f_df, f_token, f_out, file, clock, cache, page_cache, ss,
          last, e2e, db, call, resp, reqs, pool>>

NONE == "None"

(************************* bounds of the model *****************************)
MaxCols == 6
MaxFilterRows == 3
MaxRows == 2
MaxClock == 2
MaxNames == 2
MaxItems == 2
MaxRequests == 3

(************************* src/core/config.py ******************************)
REQUIRED_COLUMNS == <<"Date", "Desc", "Label", "Category", "Total">>

(************************* cells and tables ********************************)
Timestamp(y, m, d) == <<"ts", y, m, d>>
IsoText(y, m, d) == <<"iso", y, m, d>>
StrCell(s) == <<"str", s>>
IntCell(n) == <<"int", n>>
NaN == <<"nan">>
NaT == <<"nat">>
Blank == <<"blank">>
None == <<"none">>

BoolStr(b) == IF b THEN "True" ELSE "False"

DataFrame(columns) == [cols |-> columns, rows |-> <<>>]

\* df.columns[:n]  (a Python slice stops at the end of the sequence)
Slice(seq, n) == SubSeq(seq, 1, IF Len(seq) < n THEN Len(seq) ELSE n)

\* position of the column called name (pandas resolves df[name] by label)
ColIndex(cols, name) == CHOOSE i \in 1..Len(cols) : cols[i] = name
HasCol(cols, name) == \E i \in 1..Len(cols) : cols[i] = name

(************************* src/utils/file.py *******************************)
validate_columns_as_set(df) ==
    {REQUIRED_COLUMNS[i] : i \in 1..Len(REQUIRED_COLUMNS)}
        \subseteq {df.cols[i] : i \in 1..Len(df.cols)}

validate_columns_first_four(df) ==
    Slice(df.cols, 4) = Slice(REQUIRED_COLUMNS, 4)

validate_columns(df) ==
    Slice(df.cols, Len(REQUIRED_COLUMNS)) = REQUIRED_COLUMNS

(************************* src/types/months.py *****************************)
MonthNames == <<"All", "January", "February", "March", "April", "May", "June",
                "July", "August", "September", "October", "November", "December">>

\* class Months(Enum): member name -> value
Months == [n \in {MonthNames[i] : i \in 1..Len(MonthNames)} |->
              (CHOOSE i \in 1..Len(MonthNames) : MonthNames[i] = n) - 1]

\* MonthsJap: {"All": "subete"} merged with {name: f"{value}gatsu"}
MonthsJap == [n \in DOMAIN Months |->
                 IF n = "All" THEN "subete" ELSE ToString(Months[n]) \o "gatsu"]

MONTH_MAP == [jap \in {MonthsJap[n] : n \in DOMAIN MonthsJap} |->
                 IF jap = "subete" THEN 0
                 ELSE Months[CHOOSE n \in DOMAIN MonthsJap : MonthsJap[n] = jap]]

MONTH_OPTIONS == [i \in 1..Len(MonthNames) |-> MonthsJap[MonthNames[i]]]

(************************* src/pages/cashflow.py ***************************)
\* x.month of a Date cell: NaT has no month (nan compares unequal to all)
MonthOf(cell) == IF cell[1] = "ts" THEN cell[3] ELSE -1

MonthNumDefaultJanuary(month_jap) ==
    IF month_jap \in DOMAIN MONTH_MAP THEN MONTH_MAP[month_jap] ELSE 1

\* MONTH_MAP.get(month_jap, 0)
MonthNum(month_jap) ==
    IF month_jap \in DOMAIN MONTH_MAP THEN MONTH_MAP[month_jap] ELSE 0

filter_by_month_of_2024(df, month_jap) ==
    LET month_num == MonthNum(month_jap)
        date == ColIndex(df.cols, "Date")
    IN  IF month_num = 0 THEN df
        ELSE [df EXCEPT !.rows = SelectSeq(df.rows,
                 LAMBDA r : MonthOf(r[date]) = month_num /\ r[date][2] = 2024)]

\* filter_by_month(df, month_jap): df.copy() has the content of df
filter_by_month(df, month_jap) ==
    LET month_num == MonthNum(month_jap)
        date == ColIndex(df.cols, "Date")
    IN  IF month_num = 0 THEN df
        ELSE [df EXCEPT !.rows = SelectSeq(df.rows,
                 LAMBDA r : MonthOf(r[date]) = month_num)]

(************************* CSV reading and writing *************************)
\* DataFrame.to_csv(index=False): a Timestamp is written as its ISO date,
\* a missing value as an empty cell, text and integers as themselves
to_csv_cell(c) ==
    IF c[1] = "ts" THEN IsoText(c[2], c[3], c[4])
    ELSE IF c \in {NaN, NaT, None} THEN Blank
    ELSE c

to_csv(df) ==
    [cols |-> df.cols,
     rows |-> [i \in 1..Len(df.rows) |->
                  [j \in 1..Len(df.rows[i]) |-> to_csv_cell(df.rows[i][j])]]]

\* pd.read_csv of a non-empty file: an empty cell is read as NaN, a date
\* stays text (no parse_dates), text and integers are themselves
read_csv_cell(c) == IF c = Blank THEN NaN ELSE c

parse_csv(data) ==
    [cols |-> data.cols,
     rows |-> [i \in 1..Len(data.rows) |->
                  [j \in 1..Len(data.rows[i]) |-> read_csv_cell(data.rows[i][j])]]]

\* pd.to_datetime(column, yearfirst=True) on ISO text
to_datetime_cell(c) ==
    IF c[1] = "iso" THEN Timestamp(c[2], c[3], c[4])
    ELSE IF c \in {NaN, NaT} THEN NaT
    ELSE c

(************************* the dataset file ********************************)
AbsentFile == [exists |-> FALSE, mtime |-> 0, data |-> DataFrame(<<>>)]

WrittenFile(df, now) == [exists |-> TRUE, mtime |-> now, data |-> to_csv(df)]

\* os.path.exists(DATA_PATH)
file_exists(f) == f.exists

\* pd.read_csv(DATA_PATH) with the two handlers of utils.file.get_data
read_data(f) ==
    IF ~f.exists THEN DataFrame(REQUIRED_COLUMNS)      \* FileNotFoundError
    ELSE IF f.data.cols = <<>> THEN DataFrame(<<>>)    \* EmptyDataError
    ELSE parse_csv(f.data)

\* @st.cache_data get_data(file_mod_time): memoized on its argument
get_data(f, memo, file_mod_time) ==
    IF \E e \in memo : e.key = file_mod_time
    THEN [df |-> (CHOOSE e \in memo : e.key = file_mod_time).df, cache |-> memo]
    ELSE [df |-> read_data(f),
          cache |-> memo \cup {[key |-> file_mod_time, df |-> read_data(f)]}]

save_data_overwrites(f, df, now, io_ok) ==
    IF io_ok THEN [ret |-> "Success", file |-> WrittenFile(df, now)]
    ELSE [ret |-> "OSError", file |-> f]

\* save_data(df): the writer may fail (io_ok = FALSE), leaving no file
save_data(f, df, now, io_ok) ==
    IF file_exists(f) THEN [ret |-> "File already exists", file |-> f]
    ELSE IF io_ok THEN [ret |-> "Success", file |-> WrittenFile(df, now)]
    ELSE [ret |-> "OSError", file |-> f]

delete_data_resets_always(f, session, rm_ok) ==
    [ret |-> IF f.exists /\ rm_ok THEN "Data deleted successfully."
             ELSE "Error deleting file",
     file |-> IF f.exists /\ rm_ok THEN AbsentFile ELSE f,
     session |-> [session EXCEPT !.data_file = "False", !.view = NONE]]

\* delete_data(): os.remove fails when the file is absent or rm_ok = FALSE
delete_data(f, session, rm_ok) ==
    IF f.exists /\ rm_ok
    THEN [ret |-> "Data deleted successfully.", file |-> AbsentFile,
          session |-> [session EXCEPT !.data_file = "False", !.view = NONE]]
    ELSE [ret |-> "Error deleting file", file |-> f, session |-> session]

(************************* src/pages/database.py ***************************)
\* get_data of pages/database.py: the same memoized read, but without the
\* FileNotFoundError handler: with no file the read raises out of the call
\* and nothing is memoized
database_get_data(f, memo, file_mod_time) ==
    IF \E e \in memo : e.key = file_mod_time
    THEN [raised |-> FALSE, df |-> (CHOOSE e \in memo : e.key = file_mod_time).df,
          cache |-> memo]
    ELSE IF ~f.exists
    THEN [raised |-> TRUE, df |-> DataFrame(<<>>), cache |-> memo]
    ELSE [raised |-> FALSE, df |-> read_data(f),
          cache |-> memo \cup {[key |-> file_mod_time, df |-> read_data(f)]}]

\* _render_file_available(): the table behind the "Download" button
render_file_available(f, memo) ==
    database_get_data(f, memo, IF f.exists THEN f.mtime ELSE 0)

\* the status panel of a run of the database page: the download table is
\* loaded when the run found the file
render_status_panel(f, memo) ==
    IF file_exists(f) THEN render_file_available(f, memo).cache ELSE memo

(************************* src/pages/cashflow.py: data *********************)
\* load_cashflow_data(): get_data keyed by the modification time (0 when the
\* file is absent), then df["Date"] = pd.to_datetime(df["Date"], ...);
\* a frame without a Date column raises KeyError after the cache is filled
load_cashflow_data(f, memo) ==
    LET file_mod_time == IF f.exists THEN f.mtime ELSE 0
        got == get_data(f, memo, file_mod_time)
        date == ColIndex(got.df.cols, "Date")
    IN  IF ~HasCol(got.df.cols, "Date")
        THEN [raised |-> TRUE, df |-> got.df, cache |-> got.cache]
        ELSE [raised |-> FALSE,
              df |-> [got.df EXCEPT !.rows =
                        [i \in 1..Len(got.df.rows) |->
                            [got.df.rows[i] EXCEPT ![date] = to_datetime_cell(@)]]],
              cache |-> got.cache]

\* pd.concat([df, new_row], ignore_index=True): columns are the union in
\* order of first appearance, rows are aligned by column label
Reindex(cols, row, onto) ==
    [j \in 1..Len(onto) |->
        IF HasCol(cols, onto[j]) THEN row[ColIndex(cols, onto[j])] ELSE NaN]

concat(df, other) ==
    LET onto == df.cols \o SelectSeq(other.cols, LAMBDA c : ~HasCol(df.cols, c))
    IN  [cols |-> onto,
         rows |-> [i \in 1..Len(df.rows) |-> Reindex(df.cols, df.rows[i], onto)]
                  \o [i \in 1..Len(other.rows) |->
                         Reindex(other.cols, other.rows[i], onto)]]

new_row_misaligned(date, desc, label, category, total) ==
    [cols |-> REQUIRED_COLUMNS,
     rows |-> << <<date, desc, category, label, total>> >>]

\* pd.DataFrame([dict(zip(REQUIRED_COLUMNS, [date, desc, label, category, total]))])
new_row(date, desc, label, category, total) ==
    [cols |-> REQUIRED_COLUMNS,
     rows |-> << <<date, desc, label, category, total>> >>]

add_new_row_prepends(df, date, desc, label, category, total) ==
    concat(new_row(date, desc, label, category, total), df)

\* add_new_row: the table put into st.session_state.cashflow_df
add_new_row(df, date, desc, label, category, total) ==
    concat(df, new_row(date, desc, label, category, total))

validate_form_inputs_allows_zero(desc, label, category, total) ==
    (IF desc[2] \in {"", " "} THEN <<"Description">> ELSE <<>>)
    \o (IF label = None THEN <<"Label">> ELSE <<>>)
    \o (IF category = None THEN <<"Category">> ELSE <<>>)
    \o (IF total = None \/ total[2] < 0 THEN <<"Total">> ELSE <<>>)

to_csv_DATA_PATH_append(f, df, now) ==
    IF f.exists /\ f.data.cols = df.cols /\ df.rows # <<>>
    THEN [exists |-> TRUE, mtime |-> now,
          data |-> [cols |-> df.cols,
                    rows |-> f.data.rows \o to_csv([df EXCEPT !.rows =
                                 <<df.rows[Len(df.rows)]>>]).rows]]
    ELSE WrittenFile(df, now)

\* st.session_state.cashflow_df.to_csv(DATA_PATH, index=False): the file is
\* created or replaced, whatever it held
to_csv_DATA_PATH(f, df, now) == WrittenFile(df, now)

\* validate_form_inputs: the missing or invalid field names
validate_form_inputs(desc, label, category, total) ==
    (IF desc[2] \in {"", " "} THEN <<"Description">> ELSE <<>>)
    \o (IF label = None THEN <<"Label">> ELSE <<>>)
    \o (IF category = None THEN <<"Category">> ELSE <<>>)
    \o (IF total = None \/ total[2] <= 0 THEN <<"Total">> ELSE <<>>)

(***************************************************************************)
(* Specification SpecColumns: validate_columns over column lists.          *)
(***************************************************************************)
ColumnNames == {"Date", "Desc", "Label", "Category", "Total", "Extra"}

PureInit ==
    /\ vc_df = DataFrame(<<>>)
    /\ vc_ret = NONE
    /\ f_df = DataFrame(REQUIRED_COLUMNS)
    /\ f_token = NONE
    /\ f_out = NONE

VcAddColumn(name) ==
    /\ Len(vc_df.cols) < MaxCols
    /\ vc_df' = [vc_df EXCEPT !.cols = Append(@, name)]
    /\ vc_ret' = NONE
    /\ UNCHANGED <<f_df, f_token, f_out, uiVars, dbVars, sessVars>>

VcValidate ==
    /\ vc_ret' = BoolStr(validate_columns(vc_df))
    /\ UNCHANGED <<vc_df, f_df, f_token, f_out, uiVars, dbVars, sessVars>>

(***************************************************************************)
(* Specification SpecFilter: filter_by_month over tables of dated rows.    *)
(***************************************************************************)
FilterDates == {Timestamp(2023, 1, 5), Timestamp(2024, 1, 20),
                Timestamp(2023, 2, 1)}
FilterDescs == {"rent", "food"}

\* the tokens of the select box, English month names, and unknown tokens
FilterTokens == {MONTH_OPTIONS[i] : i \in 1..Len(MONTH_OPTIONS)}
                    \cup {"All", "January", "February", "13gatsu"}

FilterRow(date, desc) ==
    <<date, StrCell(desc), StrCell("Outcome"), StrCell("Consumption"), IntCell(5)>>

FAppendRow(date, desc) ==
    /\ Len(f_df.rows) < MaxFilterRows
    /\ f_df' = [f_df EXCEPT !.rows = Append(@, FilterRow(date, desc))]
    /\ f_token' = NONE
    /\ f_out' = NONE
    /\ UNCHANGED <<vc_df, vc_ret, uiVars, dbVars, sessVars>>

FFilter(token) ==
    /\ f_token' = token
    /\ f_out' = filter_by_month(f_df, token)
    /\ UNCHANGED <<vc_df, vc_ret, f_df, uiVars, dbVars, sessVars>>

(***************************************************************************)
(* Specification Spec: the Streamlit pages over the dataset file.  Every   *)
(* action is one run of a page script for one interaction of session s.    *)
(***************************************************************************)
Sessions == {"s1", "s2"}

FreshSession ==
    [has_df |-> FALSE, cashflow_df |-> DataFrame(<<>>),
     form |-> NONE, view |-> NONE, data_file |-> NONE]

\* the time a write is stamped with: the clock may or may not have ticked
WriteTimes == {t \in {clock, clock + 1} : t <= MaxClock}

\* form inputs: st.date_input, st.text_input, two st.selectbox(index=None),
\* st.number_input(min_value=0, value=None)
\* (complete forms, and forms with fields missing or invalid)
FormDates == {Timestamp(2024, 1, 20), Timestamp(2023, 2, 1)}
FormInputs ==
    {<<date, StrCell("rent"), StrCell("Income"), StrCell("Consumption"), IntCell(5)>> :
        date \in FormDates}
    \cup {<<Timestamp(2024, 1, 20), desc, StrCell("Income"), StrCell("Consumption"),
            IntCell(5)>> : desc \in {StrCell(""), StrCell(" ")}}
    \cup {<<Timestamp(2024, 1, 20), StrCell("rent"), None, StrCell("Consumption"),
            IntCell(5)>>,
          <<Timestamp(2024, 1, 20), StrCell("rent"), StrCell("Income"), None, IntCell(5)>>,
          <<Timestamp(2024, 1, 20), StrCell("rent"), StrCell("Income"),
            StrCell("Consumption"), None>>,
          <<Timestamp(2024, 1, 20), StrCell("rent"), StrCell("Income"),
            StrCell("Consumption"), IntCell(0)>>,
          <<Timestamp(2024, 1, 20), StrCell(""), None, None, None>>}

\* what pd.read_csv(uploaded) can give
UploadedRow == <<IsoText(2023, 1, 5), StrCell("salary"), StrCell("Income"),
                 StrCell("Lifestyle"), IntCell(100)>>
Uploads ==
    {[cols |-> REQUIRED_COLUMNS, rows |-> <<UploadedRow>>],
     [cols |-> REQUIRED_COLUMNS \o <<"Extra">>,
      rows |-> <<UploadedRow \o <<NaN>> >>],
     [cols |-> <<"Desc", "Date", "Label", "Category", "Total">>,
      rows |-> <<>>],
     [cols |-> <<"Date", "Desc", "Label", "Category">>, rows |-> <<>>]}

UiInit ==
    /\ file = AbsentFile
    /\ clock = 1
    /\ cache = {}
    /\ page_cache = {}
    /\ ss = [s \in Sessions |-> FreshSession]
    /\ last = [s |-> NONE, op |-> NONE, ret |-> NONE, arg |-> NONE]
    /\ e2e = [phase |-> "fresh", arg |-> NONE]

\* the scenario monitor: generate on a fresh state, then one add
Off == [phase |-> "off", arg |-> NONE]
AfterGenerate ==
    IF e2e.phase = "fresh" THEN [phase |-> "generated", arg |-> NONE] ELSE Off
AfterAdd(inputs) ==
    IF e2e.phase = "generated" THEN [phase |-> "added", arg |-> inputs] ELSE Off

(**************************** cashflow.py **********************************)
\* cashflow_layout(): the page is opened or re-run with no button pressed
CashflowRun(s) ==
    LET ld == load_cashflow_data(file, cache)
    IN  /\ IF ss[s].has_df
           THEN /\ UNCHANGED <<ss, cache>>
                /\ last' = [s |-> s, op |-> "cashflow", ret |-> "shown", arg |-> NONE]
           ELSE /\ cache' = ld.cache
                /\ IF ld.raised
                   THEN /\ UNCHANGED ss
                        /\ last' = [s |-> s, op |-> "cashflow", ret |-> "KeyError",
                                    arg |-> NONE]
                   ELSE /\ ss' = [ss EXCEPT ![s].has_df = TRUE,
                                            ![s].cashflow_df = ld.df]
                        /\ last' = [s |-> s, op |-> "cashflow", ret |-> "loaded",
                                    arg |-> NONE]
        /\ UNCHANGED <<file, clock, e2e, page_cache, pureVars, dbVars, sessVars>>

\* render_table(): the "Add Data" button
CashflowAddData(s) ==
    /\ ss[s].has_df
    /\ ss[s].form = NONE
    /\ ss' = [ss EXCEPT ![s].form = "add"]
    /\ last' = [s |-> s, op |-> "add_data", ret |-> "form", arg |-> NONE]
    /\ UNCHANGED <<file, clock, cache, e2e, page_cache, pureVars, dbVars, sessVars>>

\* _render_add_form(): the "Close" button
CashflowClose(s) ==
    /\ ss[s].has_df
    /\ ss[s].form = "add"
    /\ ss' = [ss EXCEPT ![s].form = NONE]
    /\ last' = [s |-> s, op |-> "close", ret |-> "closed", arg |-> NONE]
    /\ UNCHANGED <<file, clock, cache, e2e, page_cache, pureVars, dbVars, sessVars>>

\* _render_add_form(): the "Save" button with the form's inputs; add_new_row
\* stores the new table in the session and then writes it over the file
\* (an OSError of to_csv, io_ok = FALSE, propagates with the session updated)
CashflowSave(s, date, desc, label, category, total, IO) ==
    LET missing_fields == validate_form_inputs(desc, label, category, total)
        df == add_new_row(ss[s].cashflow_df, date, desc, label, category, total)
        inputs == <<date, desc, label, category, total>>
    IN  /\ ss[s].has_df
        /\ ss[s].form = "add"
        /\ IF missing_fields # <<>>
           THEN /\ last' = [s |-> s, op |-> "save_form", ret |-> "missing",
                            arg |-> missing_fields]
                /\ UNCHANGED <<ss, file, clock, e2e>>
           ELSE /\ Len(ss[s].cashflow_df.rows) < MaxRows
                /\ ss' = [ss EXCEPT ![s].cashflow_df = df]
                /\ \E io_ok \in IO, now \in WriteTimes :
                     IF io_ok
                     THEN /\ file' = to_csv_DATA_PATH(file, df, now)
                          /\ clock' = now
                          /\ e2e' = AfterAdd(inputs)
                          /\ last' = [s |-> s, op |-> "save_form", ret |-> "added",
                                      arg |-> inputs]
                     ELSE /\ UNCHANGED <<file, clock>>
                          /\ e2e' = Off
                          /\ last' = [s |-> s, op |-> "save_form", ret |-> "OSError",
                                      arg |-> inputs]
        /\ UNCHANGED <<cache, page_cache, pureVars, dbVars, sessVars>>

(**************************** database.py **********************************)
\* database_management_layout(): the page is opened or re-run
DbRun(s) ==
    /\ ss' = [ss EXCEPT ![s].data_file = BoolStr(file_exists(file))]
    /\ page_cache' = render_status_panel(file, page_cache)
    /\ last' = [s |-> s, op |-> "database", ret |-> "shown", arg |-> NONE]
    /\ UNCHANGED <<file, clock, cache, e2e, pureVars, dbVars, sessVars>>

\* _render_no_data(): "Upload Data" / "Generate Template", shown while the
\* last run found no file; the re-run shows them only if there is still none
DbChooseView(s, view) ==
    /\ ss[s].data_file = "False"
    /\ ss' = [ss EXCEPT ![s].data_file = BoolStr(file_exists(file)),
                        ![s].view = IF file_exists(file) THEN @ ELSE view]
    /\ page_cache' = render_status_panel(file, page_cache)
    /\ last' = [s |-> s, op |-> "db_view", ret |-> "shown", arg |-> NONE]
    /\ UNCHANGED <<file, clock, cache, e2e, pureVars, dbVars, sessVars>>

\* the "Save" button of a view of database.py, saving df
DbSave(s, op, df, IO) ==
    \E io_ok \in IO, now \in WriteTimes :
    LET saved == save_data(file, df, now, io_ok)
    IN  IF file_exists(file)
        THEN \* the view panel is not rendered: the click has no handler
             /\ ss' = [ss EXCEPT ![s].data_file = "True"]
             /\ page_cache' = render_status_panel(file, page_cache)
             /\ last' = [s |-> s, op |-> op, ret |-> "not rendered", arg |-> df]
             /\ UNCHANGED <<file, clock, e2e>>
        ELSE \* after "Success" st.rerun() runs the page again, with the file
             /\ file' = saved.file
             /\ page_cache' = render_status_panel(saved.file, page_cache)
             /\ clock' = IF saved.ret = "Success" THEN now ELSE clock
             /\ ss' = [ss EXCEPT
                         ![s].data_file = BoolStr(saved.ret = "Success"),
                         ![s].view = IF saved.ret = "Success" THEN NONE ELSE @]
             /\ last' = [s |-> s, op |-> op, ret |-> saved.ret, arg |-> df]
             /\ e2e' = IF saved.ret # "Success" THEN e2e
                       ELSE IF op = "generate" THEN AfterGenerate ELSE Off

\* _render_generate_view() of database.py
DbGenerate(s, IO) ==
    /\ ss[s].data_file = "False"
    /\ ss[s].view = "generate"
    /\ DbSave(s, "generate", DataFrame(REQUIRED_COLUMNS), IO)
    /\ UNCHANGED <<cache, pureVars, dbVars, sessVars>>

\* _render_upload_view() of database.py: a file is uploaded and, when its
\* columns are valid, "Save" is pressed
DbUpload(s, uploaded, IO) ==
    /\ ss[s].data_file = "False"
    /\ ss[s].view = "upload"
    /\ IF ~file_exists(file) /\ ~validate_columns(uploaded)
       THEN /\ ss' = [ss EXCEPT ![s].data_file = "False"]
            /\ last' = [s |-> s, op |-> "upload", ret |-> "Invalid CSV format",
                        arg |-> uploaded]
            /\ UNCHANGED <<file, clock, page_cache, e2e>>
       ELSE DbSave(s, "upload", uploaded, IO)
    /\ UNCHANGED <<cache, pureVars, dbVars, sessVars>>

\* _render_file_available(): the "Delete" button, shown while the last run
\* found the file
DbDelete(s, rm_ok) ==
    LET ran == [ss[s] EXCEPT !.data_file = BoolStr(file_exists(file))]
        del == delete_data(file, ran, rm_ok)
    IN  /\ ss[s].data_file = "True"
        /\ IF ~file_exists(file)
           THEN /\ ss' = [ss EXCEPT ![s] = ran]
                /\ last' = [s |-> s, op |-> "delete", ret |-> "not rendered",
                            arg |-> NONE]
                /\ UNCHANGED <<file, page_cache, e2e>>
           ELSE \* after a removal st.rerun() runs the page again, without
                \* the file; after a failed one the run goes on to the
                \* "Download" button
                /\ ss' = [ss EXCEPT ![s] = del.session]
                /\ file' = del.file
                /\ page_cache' = render_status_panel(del.file, page_cache)
                /\ last' = [s |-> s, op |-> "delete", ret |-> del.ret, arg |-> NONE]
                /\ e2e' = IF del.file = file THEN e2e ELSE Off
        /\ UNCHANGED <<clock, cache, pureVars, dbVars, sessVars>>

(**************************** upload_data.py *******************************)
\* upload_data_layout(): the "Upload" / "Generate Template CSV" buttons
UpChooseView(s, view) ==
    /\ ss' = [ss EXCEPT ![s].view = view]
    /\ last' = [s |-> s, op |-> "up_view", ret |-> "shown", arg |-> NONE]
    /\ UNCHANGED <<file, clock, cache, e2e, page_cache, pureVars, dbVars, sessVars>>

\* the "Save" button of a view of upload_data.py, saving df
UpSave(s, op, df, IO) ==
    \E io_ok \in IO, now \in WriteTimes :
    LET saved == save_data(file, df, now, io_ok)
    IN  /\ file' = saved.file
        /\ clock' = IF saved.ret = "Success" THEN now ELSE clock
        /\ last' = [s |-> s, op |-> op, ret |-> saved.ret, arg |-> df]
        /\ e2e' = IF saved.ret # "Success" THEN e2e
                  ELSE IF op = "generate" THEN AfterGenerate ELSE Off
        /\ UNCHANGED <<ss, cache, page_cache, pureVars, dbVars, sessVars>>

\* render_generate_view() of upload_data.py
UpGenerate(s, IO) ==
    /\ ss[s].view = "generate"
    /\ UpSave(s, "generate", DataFrame(REQUIRED_COLUMNS), IO)

\* render_upload_view() of upload_data.py
UpUpload(s, uploaded, IO) ==
    /\ ss[s].view = "upload"
    /\ IF ~validate_columns(uploaded)
       THEN /\ last' = [s |-> s, op |-> "upload", ret |-> "Invalid CSV format",
                        arg |-> uploaded]
            /\ UNCHANGED <<file, clock, ss, cache, e2e, page_cache, pureVars, dbVars, sessVars>>
       ELSE UpSave(s, "upload", uploaded, IO)

\* the page scripts: src/pages/cashflow.py, src/pages/upload_data.py and
\* src/pages/database.py, each with its interactions
CashflowNext(s, IO) ==
    \/ CashflowRun(s)
    \/ CashflowAddData(s)
    \/ CashflowClose(s)
    \/ \E in \in FormInputs :
            CashflowSave(s, in[1], in[2], in[3], in[4], in[5], IO)

UploadDataNext(s, IO) ==
    \/ \E view \in {"upload", "generate"} : UpChooseView(s, view)
    \/ UpGenerate(s, IO)
    \/ \E uploaded \in Uploads : UpUpload(s, uploaded, IO)

DatabaseNext(s, IO) ==
    \/ DbRun(s)
    \/ \E view \in {"upload", "generate"} : DbChooseView(s, view)
    \/ DbGenerate(s, IO)
    \/ \E uploaded \in Uploads : DbUpload(s, uploaded, IO)
    \/ \E rm_ok \in IO : DbDelete(s, rm_ok)

\* the pages of the navigation (get_pages): Cashflow and Upload Data
UiNext(S, IO) ==
    \E s \in S : CashflowNext(s, IO) \/ UploadDataNext(s, IO)

(***************************************************************************)
(* Specification SpecDb: the relational store, the Crud layer and the HTTP *)
(* endpoints of src/app.py and src/routes.  A row's id is an integer; its  *)
(* other columns hold cells, None being SQL NULL.                          *)
(***************************************************************************)
\* INTEGER PRIMARY KEY of SQLite: the largest id of the table plus one
NextId(table) ==
    IF table = {} THEN 1
    ELSE (CHOOSE i \in {r.id : r \in table} : \A r \in table : r.id <= i) + 1

\* class Categories / class Labels: Categories(name=name)
NamedRow(name) == [id |-> 0, name |-> name]

\* class Items(SQLModel, table=True): the constructor keeps the keyword
\* arguments that name a declared column and drops the others; a column
\* that is not given takes its default, None
ItemsColumns == {"date", "category", "name", "label", "total"}

Items(kwargs) ==
    [c \in ItemsColumns \cup {"id"} |->
        IF c = "id" THEN 0
        ELSE IF c \in DOMAIN kwargs THEN kwargs[c] ELSE None]

\* the NOT NULL columns of the items table: date, name, total
ItemsInsertable(row) ==
    row.date # None /\ row.name # None /\ row.total # None

(**************************** src/core/crud.py *****************************)
\* fault says where the store raises: "none", "commit" (the INSERT or the
\* COMMIT fails and nothing is written) or "refresh" (the row is committed
\* and the SELECT of session.refresh fails)
get_category(d) == d.categories
get_label(d) == d.labels
get_item(d) == d.items

set_category_unique(d, name, fault) ==
    LET stmt == [NamedRow(name) EXCEPT !.id = NextId(d.categories)]
    IN  IF fault = "commit" \/ \E r \in d.categories : r.name = name
        THEN [ret |-> FALSE, db |-> d]
        ELSE [ret |-> fault # "refresh",
              db |-> [d EXCEPT !.categories = @ \cup {stmt}]]

set_category(d, name, fault) ==
    LET stmt == [NamedRow(name) EXCEPT !.id = NextId(d.categories)]
    IN  IF fault = "commit" THEN [ret |-> FALSE, db |-> d]
        ELSE [ret |-> fault # "refresh",
              db |-> [d EXCEPT !.categories = @ \cup {stmt}]]

set_label(d, name, fault) ==
    LET stmt == [NamedRow(name) EXCEPT !.id = NextId(d.labels)]
    IN  IF fault = "commit" THEN [ret |-> FALSE, db |-> d]
        ELSE [ret |-> fault # "refresh",
              db |-> [d EXCEPT !.labels = @ \cup {stmt}]]

set_item(d, date, category, name, label, total, fault) ==
    LET stmt == Items([date |-> date, category_id |-> category, name |-> name,
                       label_id |-> label, total |-> total])
    IN  IF fault = "commit" \/ ~ItemsInsertable(stmt) THEN [ret |-> FALSE, db |-> d]
        ELSE [ret |-> fault # "refresh",
              db |-> [d EXCEPT !.items = @ \cup {[stmt EXCEPT !.id = NextId(d.items)]}]]

delete_item_cascade(d, item_id, fault) ==
    IF fault = "exec" \/ ~\E r \in d.items : r.id = item_id
    THEN [ret |-> FALSE, db |-> d]
    ELSE IF fault = "commit" THEN [ret |-> FALSE, db |-> d]
    ELSE [ret |-> TRUE,
          db |-> [d EXCEPT !.items = {r \in @ : r.id # item_id},
                           !.categories = {}]]

delete_item_unchecked(d, item_id, fault) ==
    IF fault # "none" THEN [ret |-> FALSE, db |-> d]
    ELSE [ret |-> TRUE, db |-> [d EXCEPT !.items = {r \in @ : r.id # item_id}]]

\* fault: "none", "exec" (the SELECT raises) or "commit" (the DELETE or the
\* COMMIT raises); .one() raises NoResultFound when no row has the id
delete_item(d, item_id, fault) ==
    IF fault = "exec" \/ ~\E r \in d.items : r.id = item_id
    THEN [ret |-> FALSE, db |-> d]
    ELSE IF fault = "commit" THEN [ret |-> FALSE, db |-> d]
    ELSE [ret |-> TRUE, db |-> [d EXCEPT !.items = {r \in @ : r.id # item_id}]]

(**************************** the HTTP endpoints ***************************)
AddFaults == {"none", "commit", "refresh"}
DeleteFaults == {"none", "exec", "commit"}
Names == {"Food", "Rent"}
LabelNames == {"Income"}
ItemNames == {StrCell("coffee")}
ItemDates == {Timestamp(2024, 1, 20)}
ItemTotals == {IntCell(5)}
CategoryIds == {IntCell(1), IntCell(2)}
LabelIds == {IntCell(1)}
ItemIds == 1..(MaxItems + 1)

DbInit ==
    /\ db = [categories |-> {}, labels |-> {}, items |-> {}]
    /\ call = [op |-> NONE, args |-> NONE, fault |-> NONE, ret |-> FALSE]
    /\ resp = [route |-> NONE, status |-> 0]

(***************************************************************************)
(* Specification SpecSession: Database.get_session as the dependency of    *)
(* every endpoint (SessionDep).  For each request the framework calls      *)
(* get_session(), runs it to its yield, calls the handler with the yielded *)
(* Session and, when the handler has returned or raised, resumes the       *)
(* generator (with the exception thrown in at the yield, if one was        *)
(* raised) so that it runs to its end.                                     *)
(***************************************************************************)
Requests == 1..MaxRequests

SessInit ==
    /\ reqs = [r \in Requests |-> [pc |-> "arrived", session |-> 0, outcome |-> NONE]]
    /\ pool = [opened |-> {}, closed |-> {}]

get_session_exit_on_return_only(p, session, outcome) ==
    IF outcome = "returned" THEN [p EXCEPT !.closed = @ \cup {session}] ELSE p

\* with Session(cls.engine) as session: ... yield session
\* a new Session object, handed to the caller
get_session(p) ==
    LET session == Cardinality(p.opened) + 1
    IN  [session |-> session, pool |-> [p EXCEPT !.opened = @ \cup {session}]]

\* finally: session.close(), and the exit of the with block, reached when the
\* generator is resumed after the yield, normally or by an exception
get_session_exit(p, session, outcome) ==
    [p EXCEPT !.closed = @ \cup {session}]

\* a request arrives: its dependency is resolved and its handler is called
Dispatch(r) ==
    LET got == get_session(pool)
    IN  /\ reqs[r].pc = "arrived"
        /\ pool' = got.pool
        /\ reqs' = [reqs EXCEPT ![r].pc = "handling", ![r].session = got.session]
        /\ UNCHANGED <<pureVars, uiVars, dbVars>>

\* the handler returns its response
HandlerReturns(r) ==
    /\ reqs[r].pc = "handling"
    /\ reqs' = [reqs EXCEPT ![r].pc = "finished", ![r].outcome = "returned"]
    /\ UNCHANGED <<pool, pureVars, uiVars, dbVars>>

\* the handler raises (a read of index() fails, a template fails to render)
HandlerRaises(r) ==
    /\ reqs[r].pc = "handling"
    /\ reqs' = [reqs EXCEPT ![r].pc = "finished", ![r].outcome = "raised"]
    /\ UNCHANGED <<pool, pureVars, uiVars, dbVars>>

\* the framework resumes the generator of the request's dependency
Teardown(r) ==
    /\ reqs[r].pc = "finished"
    /\ pool' = get_session_exit(pool, reqs[r].session, reqs[r].outcome)
    /\ reqs' = [reqs EXCEPT ![r].pc = "done"]
    /\ UNCHANGED <<pureVars, uiVars, dbVars>>

SessionNext ==
    \E r \in Requests :
        \/ Dispatch(r)
        \/ HandlerReturns(r)
        \/ HandlerRaises(r)
        \/ Teardown(r)


\* src/app.py: POST /category
AppAddCategory(name, fault) ==
    LET r == set_category(db, name, fault)
    IN  /\ Cardinality(db.categories) < MaxNames
        /\ db' = r.db
        /\ call' = [op |-> "set_category", args |-> <<name>>, fault |-> fault,
                    ret |-> r.ret]
        /\ resp' = [route |-> "POST /category",
                    status |-> IF r.ret THEN 201 ELSE 400]
        /\ UNCHANGED <<pureVars, uiVars, sessVars>>

\* src/app.py: POST /label
AppAddLabel(name, fault) ==
    LET r == set_label(db, name, fault)
    IN  /\ Cardinality(db.labels) < MaxNames
        /\ db' = r.db
        /\ call' = [op |-> "set_label", args |-> <<name>>, fault |-> fault,
                    ret |-> r.ret]
        /\ resp' = [route |-> "POST /label",
                    status |-> IF r.ret THEN 201 ELSE 400]
        /\ UNCHANGED <<pureVars, uiVars, sessVars>>

\* src/app.py: POST /items; a handler that returns nothing answers 200 null
AppAddItem(date, category_id, name, label_id, total, fault) ==
    LET r == set_item(db, date, category_id, name, label_id, total, fault)
    IN  /\ Cardinality(db.items) < MaxItems
        /\ db' = r.db
        /\ call' = [op |-> "set_item",
                    args |-> <<date, category_id, name, label_id, total>>,
                    fault |-> fault, ret |-> r.ret]
        /\ resp' = [route |-> "POST /items", status |-> 200]
        /\ UNCHANGED <<pureVars, uiVars, sessVars>>

\* src/routes/category.py: POST /category/add
RouteAddCategory(name, fault) ==
    LET r == set_category(db, name, fault)
    IN  /\ Cardinality(db.categories) < MaxNames
        /\ db' = r.db
        /\ call' = [op |-> "set_category", args |-> <<name>>, fault |-> fault,
                    ret |-> r.ret]
        /\ resp' = [route |-> "POST /category/add", status |-> 200]
        /\ UNCHANGED <<pureVars, uiVars, sessVars>>

\* src/routes/items.py: POST /items/add
RouteAddItem(date, category_id, name, label_id, total, fault) ==
    LET r == set_item(db, date, category_id, name, label_id, total, fault)
    IN  /\ Cardinality(db.items) < MaxItems
        /\ db' = r.db
        /\ call' = [op |-> "set_item",
                    args |-> <<date, category_id, name, label_id, total>>,
                    fault |-> fault, ret |-> r.ret]
        /\ resp' = [route |-> "POST /items/add", status |-> 200]
        /\ UNCHANGED <<pureVars, uiVars, sessVars>>

\* src/routes/items.py: DELETE /items/delete/{id}: the 404 Response is built
\* and dropped, so the handler returns nothing and FastAPI answers 200
DeleteStatus(deleted) == IF deleted THEN 204 ELSE 200

RouteDeleteItem(id, fault) ==
    LET r == delete_item(db, id, fault)
    IN  /\ db' = r.db
        /\ call' = [op |-> "delete_item", args |-> <<id>>, fault |-> fault,
                    ret |-> r.ret]
        /\ resp' = [route |-> "DELETE /items/delete", status |-> DeleteStatus(r.ret)]
        /\ UNCHANGED <<pureVars, uiVars, sessVars>>

\* GET /, GET /items/, GET /category/: full scans, nothing is written
ReadAll(route) ==
    /\ call' = [op |-> "get", args |-> <<>>, fault |-> "none", ret |-> TRUE]
    /\ resp' = [route |-> route, status |-> 200]
    /\ UNCHANGED <<db, pureVars, uiVars, sessVars>>

DbNext ==
    \/ \E name \in Names, fault \in AddFaults : AppAddCategory(name, fault)
    \/ \E name \in LabelNames, fault \in AddFaults : AppAddLabel(name, fault)
    \/ \E date \in ItemDates, category_id \in CategoryIds, name \in ItemNames,
          label_id \in LabelIds, total \in ItemTotals, fault \in AddFaults :
            AppAddItem(date, category_id, name, label_id, total, fault)
    \/ \E name \in Names, fault \in AddFaults : RouteAddCategory(name, fault)
    \/ \E date \in ItemDates, category_id \in CategoryIds, name \in ItemNames,
          label_id \in LabelIds, total \in ItemTotals, fault \in AddFaults :
            RouteAddItem(date, category_id, name, label_id, total, fault)
    \/ \E id \in ItemIds, fault \in DeleteFaults : RouteDeleteItem(id, fault)
    \/ \E route \in {"GET /", "GET /items/", "GET /category/"} : ReadAll(route)

ColumnsNext ==
    \/ \E name \in ColumnNames : VcAddColumn(name)
    \/ VcValidate

FilterNext ==
    \/ \E date \in FilterDates, desc \in FilterDescs : FAppendRow(date, desc)
    \/ \E token \in FilterTokens : FFilter(token)

Init == PureInit /\ UiInit /\ DbInit /\ SessInit

\* one UI session, no I/O faults
Next == UiNext({"s1"}, {TRUE})
\* one UI session; writing or removing the file may fail with an OSError
NextIO == UiNext({"s1"}, BOOLEAN)
\* two UI sessions of the one server process on the Cashflow page, their
\* page runs interleaved, after one of them generates the template; the
\* forms they save are the complete ones
CompleteForms ==
    {in \in FormInputs : validate_form_inputs(in[2], in[3], in[4], in[5]) = <<>>}

NextRace ==
    \/ UpChooseView("s1", "generate")
    \/ UpGenerate("s1", {TRUE})
    \/ \E s \in Sessions :
          \/ CashflowRun(s)
          \/ CashflowAddData(s)
          \/ CashflowClose(s)
          \/ \E in \in CompleteForms :
                CashflowSave(s, in[1], in[2], in[3], in[4], in[5], {TRUE})
\* the operations on the dataset file through the pages, by one session:
\* the Cashflow page (load, "Add Data", "Save" of a complete form) and the
\* database page (generate, upload, delete)
NextSchema ==
    \/ CashflowRun("s1")
    \/ CashflowAddData("s1")
    \/ \E in \in CompleteForms :
          CashflowSave("s1", in[1], in[2], in[3], in[4], in[5], {TRUE})
    \/ DatabaseNext("s1", {TRUE})
\* the database page run on its own; removing or writing the file may fail
NextDatabase == DatabaseNext("s1", BOOLEAN)

SpecColumns == Init /\ [][ColumnsNext]_vars
SpecFilter == Init /\ [][FilterNext]_vars
Spec == Init /\ [][Next]_vars
SpecIO == Init /\ [][NextIO]_vars
SpecRace == Init /\ [][NextRace]_vars
SpecDb == Init /\ [][DbNext]_vars
SpecSession == Init /\ [][SessionNext]_vars
\* the framework always resumes the dependency of a finished handler
SpecSessionLive == SpecSession /\ \A r \in Requests : WF_vars(Teardown(r))
SpecSchema == Init /\ [][NextSchema]_vars
SpecDatabase == Init /\ [][NextDatabase]_vars

(***************************************************************************)
(* Specifications SpecFile and SpecDelete: get_data of utils/file.py and    *)
(* get_data of pages/database.py (SpecFile), and delete_data (SpecDelete), *)
(* called on every state of the dataset file, which any process may write, *)
(* leave empty or remove.                                                  *)
(***************************************************************************)
\* what a process may write to the file
FileTables == {DataFrame(REQUIRED_COLUMNS),
               [cols |-> REQUIRED_COLUMNS, rows |-> <<UploadedRow>>]}

\* the session keys delete_data assigns, as the pages may have left them
FileInit ==
    /\ file = AbsentFile
    /\ clock = 1
    /\ cache = {}
    /\ page_cache = {}
    /\ ss \in {[s \in Sessions |->
                  IF s = "s1" THEN [FreshSession EXCEPT !.view = v, !.data_file = d]
                  ELSE FreshSession] :
               v \in {NONE, "upload", "generate"}, d \in {NONE, "True", "False"}}
    /\ last = [s |-> NONE, op |-> NONE, ret |-> NONE, arg |-> NONE]
    /\ e2e = Off

\* a process writes DATA_PATH, within the current tick of the modification
\* time or in the next
ProcWrite(df) ==
    /\ \E now \in WriteTimes :
          /\ file' = WrittenFile(df, now)
          /\ clock' = now
    /\ last' = [s |-> NONE, op |-> "write", ret |-> NONE, arg |-> NONE]
    /\ UNCHANGED <<cache, page_cache, ss, e2e, pureVars, dbVars, sessVars>>

\* a process leaves DATA_PATH as an empty file
ProcTruncate ==
    /\ \E now \in WriteTimes :
          /\ file' = [exists |-> TRUE, mtime |-> now, data |-> DataFrame(<<>>)]
          /\ clock' = now
    /\ last' = [s |-> NONE, op |-> "truncate", ret |-> NONE, arg |-> NONE]
    /\ UNCHANGED <<cache, page_cache, ss, e2e, pureVars, dbVars, sessVars>>

\* a process removes DATA_PATH
ProcRemove ==
    /\ file.exists
    /\ file' = AbsentFile
    /\ last' = [s |-> NONE, op |-> "remove", ret |-> NONE, arg |-> NONE]
    /\ UNCHANGED <<clock, cache, page_cache, ss, e2e, pureVars, dbVars, sessVars>>

\* cashflow.py: file_mod_time = getmtime if exists else 0; get_data(file_mod_time)
GetData(s) ==
    LET file_mod_time == IF file.exists THEN file.mtime ELSE 0
        got == get_data(file, cache, file_mod_time)
    IN  /\ cache' = got.cache
        /\ last' = [s |-> s, op |-> "get_data", ret |-> "returned", arg |-> got.df]
        /\ UNCHANGED <<file, clock, page_cache, ss, e2e, pureVars, dbVars, sessVars>>

\* database.py: file_mod_time = getmtime if exists else 0; get_data(file_mod_time)
DatabaseGetData(s) ==
    LET got == render_file_available(file, page_cache)
    IN  /\ page_cache' = got.cache
        /\ last' = [s |-> s, op |-> "database.get_data",
                    ret |-> IF got.raised THEN "FileNotFoundError" ELSE "returned",
                    arg |-> got.df]
        /\ UNCHANGED <<file, clock, cache, ss, e2e, pureVars, dbVars, sessVars>>

\* delete_data()
DeleteData(s, rm_ok) ==
    LET del == delete_data(file, ss[s], rm_ok)
    IN  /\ file' = del.file
        /\ ss' = [ss EXCEPT ![s] = del.session]
        /\ last' = [s |-> s, op |-> "delete_data", ret |-> del.ret,
                    arg |-> BoolStr(rm_ok)]
        /\ UNCHANGED <<clock, cache, page_cache, e2e, pureVars, dbVars, sessVars>>

\* load_cashflow_data()
LoadCashflowData(s) ==
    LET ld == load_cashflow_data(file, cache)
    IN  /\ cache' = ld.cache
        /\ last' = [s |-> s, op |-> "load_cashflow_data",
                    ret |-> IF ld.raised THEN "KeyError" ELSE "returned",
                    arg |-> ld.df]
        /\ UNCHANGED <<file, clock, page_cache, ss, e2e, pureVars, dbVars, sessVars>>

ProcNext ==
    \/ \E df \in FileTables : ProcWrite(df)
    \/ ProcTruncate
    \/ ProcRemove

FileNext ==
    \/ ProcNext
    \/ GetData("s1")
    \/ DatabaseGetData("s1")
    \/ LoadCashflowData("s1")

DeleteNext ==
    \/ ProcNext
    \/ \E rm_ok \in BOOLEAN : DeleteData("s1", rm_ok)

InitFile == PureInit /\ FileInit /\ DbInit /\ SessInit

SpecFile == InitFile /\ [][FileNext]_vars
SpecDelete == InitFile /\ [][DeleteNext]_vars

(***************************************************************************)
(* The claims.                                                             *)
(***************************************************************************)

\* C1: validate_columns returns true exactly when the table has at least
\* five columns and the first five are Date, Desc, Label, Category, Total in
\* that order; columns after the fifth play no part.
C1_ValidateColumns ==
    vc_ret # NONE =>
        (vc_ret = "True" <=>
            /\ Len(vc_df.cols) >= 5
            /\ vc_df.cols[1] = "Date"
            /\ vc_df.cols[2] = "Desc"
            /\ vc_df.cols[3] = "Label"
            /\ vc_df.cols[4] = "Category"
            /\ vc_df.cols[5] = "Total")

\* a table of six columns, the sixth one extra, was accepted
C1_Witness ==
    vc_ret = "True" /\ Len(vc_df.cols) = 6 /\ vc_df.cols[6] = "Extra"

\* C2: a save_data call that finds the file answers "File already exists"
\* and leaves the file as it was; it answers "Success" only when there was no
\* file, and then the file exists and reads back as the saved table.
SaveDataCalled ==
    last'.op \in {"generate", "upload"}
        /\ last'.ret \in {"Success", "File already exists", "OSError"}

C2_SaveNeverOverwrites ==
    [][SaveDataCalled =>
          /\ file.exists => (last'.ret = "File already exists" /\ file' = file)
          /\ last'.ret = "Success" =>
                (~file.exists /\ file'.exists /\ read_data(file') = last'.arg)]_vars

\* a save was refused because the file, holding a row, was there
C2_Witness ==
    /\ last.op \in {"generate", "upload"}
    /\ last.ret = "File already exists"
    /\ file.exists
    /\ Len(file.data.rows) = 1

\* C3 (as claimed): whenever the Cashflow page holds a table, it has the rows
\* of the dataset file if the file exists and no rows if it does not.
C3_SessionTableIsFile ==
    \A s \in {"s1"} :
        ss[s].has_df =>
            IF file.exists
            THEN to_csv(ss[s].cashflow_df).rows = file.data.rows
            ELSE ss[s].cashflow_df.rows = <<>>

\* C4: from no file and a fresh session, generating the template leaves a
\* file with the required header and no rows, and one added transaction then
\* leaves a file of exactly one row whose Date, Desc, Label, Category and
\* Total cells are the supplied date, description, label, category, amount.
C4_GenerateThenAdd ==
    /\ e2e.phase = "generated" =>
          /\ file.exists
          /\ file.data.cols = <<"Date", "Desc", "Label", "Category", "Total">>
          /\ file.data.rows = <<>>
    /\ e2e.phase = "added" =>
          /\ file.exists
          /\ file.data.cols = <<"Date", "Desc", "Label", "Category", "Total">>
          /\ Len(file.data.rows) = 1
          /\ file.data.rows[1][1] = IsoText(e2e.arg[1][2], e2e.arg[1][3], e2e.arg[1][4])
          /\ file.data.rows[1][2] = e2e.arg[2]
          /\ file.data.rows[1][3] = e2e.arg[3]
          /\ file.data.rows[1][4] = e2e.arg[4]
          /\ file.data.rows[1][5] = e2e.arg[5]

\* the template was generated and one transaction was added
C4_Witness == e2e.phase = "added" /\ file.exists

\* the rows of table whose Date has month-of-year m, in their order
RowsOfMonth(table, m) == SelectSeq(table.rows, LAMBDA r : r[1][3] = m)

\* C5 (as claimed): a token naming calendar month m, "January" included,
\* selects exactly the rows dated in month m of any year, in input order.
C5_MonthByAnyName ==
    f_token # NONE =>
        \A m \in 1..12 :
            (f_token = ToString(m) \o "gatsu" \/ f_token = MonthNames[m + 1]) =>
                (f_out.cols = f_df.cols /\ f_out.rows = RowsOfMonth(f_df, m))

\* C5 (amended): the select box's token of month m, "1gatsu" .. "12gatsu",
\* selects exactly the rows dated in month m of any year, in input order.
C5_MonthToken ==
    f_token # NONE =>
        \A m \in 1..12 :
            f_token = ToString(m) \o "gatsu" =>
                (f_out.cols = f_df.cols /\ f_out.rows = RowsOfMonth(f_df, m))

\* rows dated 2023-01-05, 2024-01-20, 2023-02-01 filtered by the token of
\* January gave the first two
C5_Witness ==
    /\ f_token = "1gatsu"
    /\ Len(f_df.rows) = 3
    /\ f_df.rows[1][1] = Timestamp(2023, 1, 5)
    /\ f_df.rows[2][1] = Timestamp(2024, 1, 20)
    /\ f_df.rows[3][1] = Timestamp(2023, 2, 1)
    /\ f_out.rows = SubSeq(f_df.rows, 1, 2)

\* C6: for the "All" token, the all-months token of the select box, and any
\* token outside the token set, the result has the rows of the input in the
\* same order and with the same content, and the input is left as it was.
SelectBoxTokens == {"subete"} \cup {ToString(m) \o "gatsu" : m \in 1..12}

C6_AllOrUnknownToken ==
    [][(f_token' # NONE
          /\ (f_token' \in {"All", "subete"} \/ f_token' \notin SelectBoxTokens))
       => (f_out' = f_df /\ f_df' = f_df)]_vars

\* an unknown token was applied to a table of three rows
C6_Witness ==
    f_token = "13gatsu" /\ Len(f_df.rows) = 3 /\ Len(f_out.rows) = 3

\* C7 (as claimed): after set_item returns true, get_item has a row with the
\* given date, name and total, the given category id and the given label id.
C7_ItemHoldsEveryField ==
    [][(call'.op = "set_item" /\ call'.ret) =>
          \E row \in get_item(db') :
              /\ row.date = call'.args[1]
              /\ row.category = call'.args[2]
              /\ row.name = call'.args[3]
              /\ row.label = call'.args[4]
              /\ row.total = call'.args[5]]_vars

TableOf(d, op) ==
    IF op = "set_category" THEN d.categories
    ELSE IF op = "set_label" THEN d.labels
    ELSE d.items

\* C8 (as claimed): an add returns true only if its row was persisted, and
\* when the store fails it returns false and its table has no new row.
C8_FailedAddAddsNothing ==
    [][call'.op \in {"set_category", "set_label", "set_item"} =>
          /\ call'.ret => Cardinality(TableOf(db', call'.op))
                            = Cardinality(TableOf(db, call'.op)) + 1
          /\ call'.fault # "none" =>
                (~call'.ret /\ TableOf(db', call'.op) = TableOf(db, call'.op))]_vars

\* C9: delete_item returns true exactly when an Item had the id and is gone
\* afterwards; then that Item alone is removed; when no Item has the id it
\* returns false and the three tables are unchanged.
C9_DeleteItem ==
    [][call'.op = "delete_item" =>
          LET id == call'.args[1]
              existed == \E r \in db.items : r.id = id
              gone == ~\E r \in db'.items : r.id = id
          IN  /\ call'.ret <=> (existed /\ gone)
              /\ call'.ret =>
                    /\ db'.items = {r \in db.items : r.id # id}
                    /\ Cardinality(db'.items) = Cardinality(db.items) - 1
                    /\ db'.categories = db.categories
                    /\ db'.labels = db.labels
              /\ ~existed => (~call'.ret /\ db' = db)]_vars

\* one of two Items was deleted, with a Category in the store
C9_Witness ==
    /\ call.op = "delete_item"
    /\ call.ret
    /\ Cardinality(db.items) = 1
    /\ db.categories # {}

\* C10 (as claimed): the delete endpoint answers 404 when no Item has the id
\* and 204 when the Item existed and was deleted.
C10_DeleteStatus ==
    [][resp'.route = "DELETE /items/delete" =>
          /\ call'.ret => resp'.status = 204
          /\ (~\E r \in db.items : r.id = call'.args[1]) => resp'.status = 404]_vars

\* C11 (as claimed): every add endpoint answers a success status (200 or 201)
\* only when the Crud add returned true, and answers 400 when it returned
\* false.
C11_AddStatusSignalsOutcome ==
    [][call'.op \in {"set_category", "set_label", "set_item"} =>
          /\ resp'.status \in {200, 201} => call'.ret
          /\ ~call'.ret => resp'.status = 400]_vars

\* C12: adding a Category under a name the table already holds succeeds when
\* the store does not fail: the call returns true and the table afterwards
\* has the old row and one more row with that name under another id; the
\* same for Labels.  The ids of a table are distinct.
C12_DuplicateNamesAccepted ==
    [][(call'.op \in {"set_category", "set_label"} /\ call'.fault = "none"
          /\ \E old \in TableOf(db, call'.op) : old.name = call'.args[1])
       => /\ call'.ret
          /\ TableOf(db, call'.op) \subseteq TableOf(db', call'.op)
          /\ \E r \in TableOf(db', call'.op) \ TableOf(db, call'.op) :
                /\ r.name = call'.args[1]
                /\ \A old \in TableOf(db, call'.op) : old.id # r.id
          /\ Cardinality({r \in TableOf(db', call'.op) : r.name = call'.args[1]})
                = Cardinality({r \in TableOf(db, call'.op) : r.name = call'.args[1]}) + 1]_vars

\* "Food" was added twice as a Category and "Income" twice as a Label: each
\* table holds two rows of the name, with ids 1 and 2
C12_Witness ==
    /\ call.op = "set_label"
    /\ call.ret
    /\ db.categories = {[id |-> 1, name |-> "Food"], [id |-> 2, name |-> "Food"]}
    /\ db.labels = {[id |-> 1, name |-> "Income"], [id |-> 2, name |-> "Income"]}

\* C13: a Category or Label row, once in its table, is in it with the same
\* id and name after every operation (reads, adds, deletes of Items).
C13_CategoriesAndLabelsPersist ==
    [][/\ \A r \in db.categories : r \in db'.categories
       /\ \A r \in db.labels : r \in db'.labels]_vars

\* an Item was deleted while both Categories and a Label were in the store
C13_Witness ==
    /\ call.op = "delete_item"
    /\ call.ret
    /\ Cardinality(db.categories) = 2
    /\ db.labels # {}
    /\ resp.status = 204

\* the table the claim gives for a state of the file
LoadOf(f) ==
    IF ~f.exists THEN [cols |-> <<"Date", "Desc", "Label", "Category", "Total">>,
                       rows |-> <<>>]
    ELSE IF f.data.cols = <<>> THEN [cols |-> <<>>, rows |-> <<>>]
    ELSE parse_csv(f.data)

\* the key of a load is not in the memo: the body of get_data runs
Computes(f, memo) ==
    ~\E e \in memo : e.key = (IF f.exists THEN f.mtime ELSE 0)

\* C14 (as claimed): a get_data call that reads the file, in utils/file.py or
\* in pages/database.py, does not raise; it returns the empty table of the
\* required columns when the file is missing, the empty table of no columns
\* when the file is empty, and the parsed rows of the file otherwise.
C14_GetDataNeverFails ==
    [][/\ (last'.op = "get_data" /\ Computes(file, cache)) =>
              (last'.ret = "returned" /\ last'.arg = LoadOf(file))
       /\ (last'.op = "database.get_data" /\ Computes(file, page_cache)) =>
              (last'.ret = "returned" /\ last'.arg = LoadOf(file))]_vars

\* C15 (as claimed): a load returns the content the file has at the time of
\* the load, whatever was loaded and memoized before the file was written,
\* emptied or removed.
C15_LoadNeverStale ==
    [][last'.op = "get_data" => last'.arg = LoadOf(file)]_vars

\* a form the claim calls invalid: blank description, no label, no category,
\* or a total that is missing or not positive
InvalidForm(in) ==
    \/ in[2] \in {<<"str", "">>, <<"str", " ">>}
    \/ in[3] = None
    \/ in[4] = None
    \/ in[5] = None
    \/ (in[5] # None /\ in[5][2] <= 0)

\* C16: "Save" of the add-transaction form with an invalid form leaves the
\* session table (the whole session state) and the dataset file as they
\* were, and "Save" of an upload whose columns fail validate_columns leaves
\* the dataset file as it was, absent or present.
C16_InvalidInputWritesNothing ==
    [][/\ \A in \in FormInputs :
            (InvalidForm(in)
               /\ CashflowSave("s1", in[1], in[2], in[3], in[4], in[5], BOOLEAN))
            => (ss' = ss /\ file' = file)
       /\ \A uploaded \in Uploads :
            (~validate_columns(uploaded) /\ UpUpload("s1", uploaded, BOOLEAN))
            => (file' = file /\ ss' = ss)]_vars

\* a form with a total of 0 was refused while the file and the session
\* table held one row
C16_Witness ==
    /\ last.op = "save_form"
    /\ last.ret = "missing"
    /\ last.arg = <<"Total">>
    /\ file.exists
    /\ Len(file.data.rows) = 1
    /\ Len(ss["s1"].cashflow_df.rows) = 1

\* C17: a completed add leaves in the session the previous table, its
\* columns and rows as they were and in the same order, followed by one row
\* that holds date, desc, label, category, total under the columns Date,
\* Desc, Label, Category, Total (and a missing value under any other
\* column), and leaves the file holding that whole table, whether or not the
\* file existed before.
C17_AddAppendsOneRow ==
    [][(last'.op = "save_form" /\ last'.ret = "added") =>
          LET old == ss[last'.s].cashflow_df
              new == ss'[last'.s].cashflow_df
              n == Len(old.rows)
              schema == <<"Date", "Desc", "Label", "Category", "Total">>
          IN  /\ new.cols = old.cols
              /\ Len(new.rows) = n + 1
              /\ SubSeq(new.rows, 1, n) = old.rows
              /\ \A j \in 1..Len(new.cols) :
                    new.rows[n + 1][j] =
                        IF \E k \in 1..5 : schema[k] = new.cols[j]
                        THEN last'.arg[CHOOSE k \in 1..5 : schema[k] = new.cols[j]]
                        ELSE NaN
              /\ file'.exists
              /\ file'.data = to_csv(new)]_vars

\* a transaction was added to an uploaded table of six columns: the file,
\* which existed, now holds the uploaded row and the new one
C17_Witness ==
    /\ last.op = "save_form"
    /\ last.ret = "added"
    /\ Len(file.data.cols) = 6
    /\ Len(file.data.rows) = 2
    /\ file.data.rows[1][2] = StrCell("salary")
    /\ file.data.rows[2][2] = StrCell("rent")

\* the session that is not w
OtherSession(w) == CHOOSE o \in {"s1", "s2"} : o # w

\* C18: a completed add of session w leaves the file holding w's table and
\* nothing else, reports success and leaves the other session as it was.
\* When the other session had loaded the same rows as w and was the earlier
\* writer (the file held its table, one row longer than the common rows),
\* the file afterwards is the common rows and w's row: it has not grown, and
\* the earlier writer's row is in the file only if it is also a common row
\* or w's row.
C18_LastWriteWins ==
    [][(last'.op = "save_form" /\ last'.ret = "added") =>
          LET w == last'.s
              o == OtherSession(w)
              mine == ss[w].cashflow_df
              theirs == ss[o].cashflow_df
              n == Len(mine.rows)
          IN  /\ file'.data = to_csv(ss'[w].cashflow_df)
              /\ ss'[o] = ss[o]
              /\ (/\ ss[o].has_df
                  /\ Len(theirs.rows) = n + 1
                  /\ SubSeq(theirs.rows, 1, n) = mine.rows
                  /\ file.data = to_csv(theirs))
                 => /\ Len(file'.data.rows) = Len(file.data.rows)
                    /\ SubSeq(file'.data.rows, 1, n) = SubSeq(file.data.rows, 1, n)
                    /\ file'.data.rows[n + 1] = to_csv(ss'[w].cashflow_df).rows[n + 1]]_vars

\* both sessions loaded the generated template; s1 added a transaction of
\* 2024-01-20 and then s2 one of 2023-02-01: the file holds s2's row alone
C18_Witness ==
    /\ last.s = "s2"
    /\ last.op = "save_form"
    /\ last.ret = "added"
    /\ Len(ss["s1"].cashflow_df.rows) = 1
    /\ ss["s1"].cashflow_df.rows[1][1] = Timestamp(2024, 1, 20)
    /\ Len(ss["s2"].cashflow_df.rows) = 1
    /\ ss["s2"].cashflow_df.rows[1][1] = Timestamp(2023, 2, 1)
    /\ Len(file.data.rows) = 1
    /\ file.data.rows[1][1] = IsoText(2023, 2, 1)

\* C19: the requests that have been given a Session hold pairwise different
\* Sessions, the Session given to a request had not been made before, a
\* request that is over has its Session closed, and once a handler has
\* finished, by returning or by raising, its Session gets closed.
C19_SessionPerRequest ==
    /\ [](\A r1, r2 \in Requests :
            (r1 # r2 /\ reqs[r1].pc # "arrived" /\ reqs[r2].pc # "arrived")
                => reqs[r1].session # reqs[r2].session)
    /\ [][\A r \in Requests :
            (reqs[r].pc = "arrived" /\ reqs'[r].pc # "arrived")
                => (reqs'[r].session \notin pool.opened
                      /\ reqs'[r].session \in pool'.opened)]_vars
    /\ [](\A r \in Requests :
            reqs[r].pc = "done" => reqs[r].session \in pool.closed)
    /\ \A r \in Requests :
            (reqs[r].pc = "finished") ~> (reqs[r].session \in pool.closed)

\* one handler raised and one returned, both Sessions are closed, and a
\* third request is being handled with its own open Session
C19_Witness ==
    \E r1, r2, r3 \in Requests :
        /\ reqs[r1].pc = "done" /\ reqs[r1].outcome = "raised"
        /\ reqs[r2].pc = "done" /\ reqs[r2].outcome = "returned"
        /\ reqs[r3].pc = "handling"
        /\ {reqs[r1].session, reqs[r2].session} \subseteq pool.closed
        /\ reqs[r3].session \in pool.opened \ pool.closed

\* C20: delete_data on an existing file that can be removed removes it and
\* leaves data_file = False and view = None; when the removal fails, the file
\* being absent or not removable, it reports the error and leaves the file,
\* data_file and view as they were.
C20_DeleteData ==
    [][last'.op = "delete_data" =>
          LET s == last'.s
          IN  /\ (file.exists /\ last'.arg = "True") =>
                    /\ last'.ret = "Data deleted successfully."
                    /\ ~file'.exists
                    /\ ss'[s].data_file = "False"
                    /\ ss'[s].view = NONE
              /\ (~file.exists \/ last'.arg = "False") =>
                    /\ last'.ret = "Error deleting file"
                    /\ file' = file
                    /\ ss'[s].data_file = ss[s].data_file
                    /\ ss'[s].view = ss[s].view]_vars

\* delete_data was called when the file was already gone: an error, with
\* data_file still True and the view still "upload"
C20_Witness ==
    /\ last.op = "delete_data"
    /\ last.ret = "Error deleting file"
    /\ last.arg = "True"
    /\ ~file.exists
    /\ ss["s1"].data_file = "True"
    /\ ss["s1"].view = "upload"

\* C21 (as claimed): load_cashflow_data does not raise and returns a table
\* that has a Date column whose cells are all dates (or the missing date),
\* when the file is missing, when it is present and empty, and when it is
\* present with the required header.
C21_LoadCashflowNeverRaises ==
    [][last'.op = "load_cashflow_data" =>
          /\ last'.ret = "returned"
          /\ \E j \in 1..Len(last'.arg.cols) :
                /\ last'.arg.cols[j] = "Date"
                /\ \A i \in 1..Len(last'.arg.rows) :
                      last'.arg.rows[i][j][1] \in {"ts", "nat"}]_vars

\* C22: starting with no file, after any sequence of template generations,
\* uploads, added transactions and deletes through the pages, the dataset
\* file, whenever it exists, has at least five columns and its first five
\* are Date, Desc, Label, Category, Total in that order.
C22_FileSchema ==
    file.exists =>
        /\ Len(file.data.cols) >= 5
        /\ SubSeq(file.data.cols, 1, 5) = <<"Date", "Desc", "Label", "Category", "Total">>

\* a table of six columns was uploaded and loaded, the file was deleted, and
\* an added transaction wrote the file again: two rows under six columns,
\* with the database page still recording that there is no file
C22_Witness ==
    /\ file.exists
    /\ last.op = "save_form"
    /\ last.ret = "added"
    /\ ss["s1"].data_file = "False"
    /\ Len(file.data.cols) = 6
    /\ Len(file.data.rows) = 2

=============================================================================
